---- MODULE Spec2Model ----
(***************************************************************************)
(* Duplicate-retailer detection engine: deduplication of visit records per *)
(* buyerid, DBSCAN clustering of the canonical coordinates, per-cluster    *)
(* statistics and the composite risk score (src/utils/clustering.py), the  *)
(* name and phone similarity analysis (src/utils/similarity.py), and the   *)
(* validation and cleaning of an uploaded file                             *)
(* (src/utils/data_processing.py) as the dashboard runs them (src/app.py). *)
(*                                                                         *)
(* Data frames are sequences of records, in row order.  Coordinates are    *)
(* integer offsets, in grid steps, from a reference point; two points are  *)
(* within the clustering radius when their squared planar distance is at   *)
(* most the squared radius (the haversine distance of nearby points).      *)
(* A mean is kept as the pair (sum, number of values) it is computed from. *)
(* Text is a sequence of characters; a similarity score is a fraction in   *)
(* lowest terms.                                                           *)
(***************************************************************************)
EXTENDS Integers, Sequences, FiniteSets, TLC

VARIABLES
  pc,                  \* which call has returned
  df,                  \* visit records passed to cluster_by_gps
  df_columns,          \* the columns of that frame
  radius_meters,       \* clustering radius, in grid steps
  min_samples,         \* DBSCAN min_samples
  df_clustered,        \* the frame cluster_by_gps returns
  cluster_stats,       \* the frame calculate_cluster_stats returns
  similarity_results,  \* dict: cluster key -> similarity entry
  risk_stats,          \* the frame calculate_cluster_risk_score returns
  coords,              \* coordinates handed to DBSCAN.fit
  labels,              \* DBSCAN labels_
  uploaded,            \* the frame read from the uploaded CSV: columns and rows
  is_valid,            \* validate_csv: first component of the result
  error_msg,           \* validate_csv: second component of the result
  removed_count,       \* clean_and_process_data: the count it reports
  name_threshold,      \* name similarity threshold of the run
  distance_matrix,     \* the frame calculate_distance_matrix returns
  selected_cluster_id  \* session state: the cluster whose details are shown

run_vars == <<uploaded, is_valid, error_msg, removed_count, name_threshold,
              distance_matrix, selected_cluster_id>>

vars == <<pc, df, df_columns, radius_meters, min_samples, df_clustered, cluster_stats,
          similarity_results, risk_stats, coords, labels, run_vars>>

\* st.session_state.get('selected_cluster_id', None): no cluster selected
NoSelection == -2

\* nothing uploaded, validated or analysed yet
NoRunState ==
  /\ uploaded = [columns |-> {}, rows |-> <<>>]
  /\ is_valid = FALSE /\ error_msg = <<>>
  /\ removed_count = 0
  /\ name_threshold = 0
  /\ distance_matrix = [index |-> <<>>, columns |-> <<>>, values |-> <<>>]
  /\ selected_cluster_id = NoSelection

----------------------------------------------------------------------------
(* Bounds of the model *)

MaxRetailerCount == 6
MaxTraderCount == 2
MaxPairs == 3
MaxPhoneLen == 2
MaxRows == 1
MaxLat == 1
MaxLon == 2
MaxPoints == 4
MaxStreet == 4
MaxWalk == 8
MaxRadius == 2
MaxMinSamples == 5
MaxRecords == 3
MaxBuyers == 3
MaxDate == 2
MaxVisitLat == 0
MaxVisitLon == 2
MaxRunRadius == 1
MaxRunMinSamples == 2
MaxClusterId == 1
MaxMissingColumns == 2
MaxUploadRows == 2
MaxUploadBuyers == 2
MaxNameRows == 3
MaxNameBuyers == 3
MaxNameDate == 2
MaxNameMinSamples == 2
MaxPhoneRows == 3
MaxPhoneBuyers == 3
MaxPhoneDate == 2
MaxPhoneLon == 1
MaxDateRows == 3
MaxDateBuyers == 2
MaxDateDay == 2
MaxDateLon == 1
MaxReclusterRadius == 2
MaxReclusterMinSamples == 3
MaxSessionRows == 3
MaxSessionLon == 2
MaxSessionRadius == 2

----------------------------------------------------------------------------
(* General helpers *)

Min(a, b) == IF a <= b THEN a ELSE b

Range(s) == {s[i] : i \in 1..Len(s)}

RECURSIVE SeqsUpTo(_, _)
SeqsUpTo(S, n) ==
  IF n = 0 THEN {<<>>}
  ELSE LET shorter == SeqsUpTo(S, n - 1)
       IN shorter \cup {Append(s, x) : s \in {t \in shorter : Len(t) = n - 1}, x \in S}

----------------------------------------------------------------------------
(* DBSCAN(eps, min_samples, metric='haversine').fit(coords_rad) *)

Dist2(p, q) == (p[1] - q[1]) * (p[1] - q[1]) + (p[2] - q[2]) * (p[2] - q[2])

\* haversine(p, q) <= eps_rad, with eps_rad the radius as an angle
WithinEps(p, q, radius) == Dist2(p, q) <= radius * radius

\* the radius neighbourhood of point i: every point within eps of it,
\* the point itself included
Neighborhood(X, radius, i) == {j \in 1..Len(X) : WithinEps(X[i], X[j], radius)}

IsCore_exclusive(X, radius, ms, i) == Cardinality(Neighborhood(X, radius, i)) > ms

\* core samples: at least min_samples points in the neighbourhood
IsCore(X, radius, ms, i) == Cardinality(Neighborhood(X, radius, i)) >= ms

Expand_none(X, radius, ms, lab, S) == S

\* the points one expansion labels, starting from the set S: the still
\* unlabelled neighbours of the core points reached so far
RECURSIVE Expand(_, _, _, _, _)
Expand(X, radius, ms, lab, S) ==
  LET reached == UNION {Neighborhood(X, radius, i) : i \in {s \in S : IsCore(X, radius, ms, s)}}
      new == {j \in reached : lab[j] = -1} \ S
  IN IF new = {} THEN S ELSE Expand(X, radius, ms, lab, S \cup new)

\* the label pass: points in row order; an unlabelled core point starts
\* the next cluster, which takes every unlabelled point it reaches
RECURSIVE DbscanInner(_, _, _, _, _, _)
DbscanInner(X, radius, ms, lab, i, label_num) ==
  IF i > Len(X) THEN lab
  ELSE IF lab[i] # -1 \/ ~IsCore(X, radius, ms, i)
       THEN DbscanInner(X, radius, ms, lab, i + 1, label_num)
       ELSE LET S == Expand(X, radius, ms, lab, {i})
            IN DbscanInner(X, radius, ms,
                           [j \in 1..Len(X) |-> IF j \in S THEN label_num ELSE lab[j]],
                           i + 1, label_num + 1)

\* clustering.labels_
DBSCAN(X, radius, ms) ==
  DbscanInner(X, radius, ms, [j \in 1..Len(X) |-> -1], 1, 0)

----------------------------------------------------------------------------
(* cluster_by_gps *)

\* pd.to_datetime(..., errors='coerce') leaves NaT for a missing or
\* unparsable meetingDate
NaT == 0

\* a missing buyerid cell (NaN)
NoBuyerId == 0

\* df.groupby('buyerid')['buyerid'].transform('count')
MeetingCount(frame, b) == Cardinality({i \in 1..Len(frame) : frame[i].buyerid = b})

\* the order with the rows without a date put first
SortsBefore_nat_first(frame, i, j) ==
  LET di == frame[i].meetingDate
      dj == frame[j].meetingDate
  IN \/ di = NaT /\ dj # NaT
     \/ di # NaT /\ dj # NaT /\ di > dj
     \/ di = dj /\ i < j

\* row i comes before row j in df.sort_values('meetingDate', ascending=False):
\* later dates first, NaT rows last, equal keys in their input order
SortsBefore(frame, i, j) ==
  LET di == frame[i].meetingDate
      dj == frame[j].meetingDate
  IN \/ di # NaT /\ dj = NaT
     \/ di # NaT /\ dj # NaT /\ di > dj
     \/ di = dj /\ i < j

SortByDateDesc_ascending(frame) ==
  [k \in 1..Len(frame) |->
     CHOOSE i \in 1..Len(frame) :
       Cardinality({j \in 1..Len(frame) :
                      \/ frame[j].meetingDate < frame[i].meetingDate
                      \/ frame[j].meetingDate = frame[i].meetingDate /\ j < i}) = k - 1]

\* the row indices of df in sorted order
SortByDateDesc(frame) ==
  [k \in 1..Len(frame) |->
     CHOOSE i \in 1..Len(frame) :
       Cardinality({j \in 1..Len(frame) : SortsBefore(frame, j, i)}) = k - 1]

\* drop_duplicates(subset=['buyerid'], keep='first') on the sorted rows:
\* the row indices of df_unique, in its row order
DropDuplicatesBuyer(frame, order) ==
  LET First(i) == \A k, l \in 1..Len(order) :
                    (order[k] = i /\ frame[order[l]].buyerid = frame[i].buyerid) => k <= l
  IN SelectSeq(order, First)

\* df_unique: the canonical row index of every buyer
UniqueRows(frame) == DropDuplicatesBuyer(frame, SortByDateDesc(frame))

\* df_unique[['currentLatitude', 'currentLongitude']].values
UniqueCoords(frame) ==
  LET u == UniqueRows(frame)
  IN [k \in 1..Len(u) |-> <<frame[u[k]].currentLatitude, frame[u[k]].currentLongitude>>]

MergeClusterId_by_position(frame, u, lab, i) ==
  IF i <= Len(u) THEN lab[i] ELSE -1

\* the cluster_id the left merge on buyerid gives row i of df_original
MergeClusterId(frame, u, lab, i) ==
  IF \E k \in 1..Len(u) : frame[u[k]].buyerid = frame[i].buyerid
  THEN lab[CHOOSE k \in 1..Len(u) : frame[u[k]].buyerid = frame[i].buyerid]
  ELSE -1

\* the meeting_count the left merge on buyerid gives row i of df_original
MergeMeetingCount(frame, u, i) ==
  IF \E k \in 1..Len(u) : frame[u[k]].buyerid = frame[i].buyerid
  THEN LET b == frame[u[CHOOSE k \in 1..Len(u) :
                          frame[u[k]].buyerid = frame[i].buyerid]].buyerid
       \* groupby leaves the rows without a buyerid out: their count is
       \* NaN, which fillna(1) replaces
       IN IF b = NoBuyerId THEN 1 ELSE MeetingCount(frame, b)
  ELSE 1

\* the frame (with at least one row) has a column of that name
HasColumn(frame, column) == column \in DOMAIN frame[1]

\* one row of df_original.merge(df_unique[['buyerid', 'cluster_id',
\* 'meeting_count']], on='buyerid', how='left', suffixes=('', '_unique')):
\* a column that df_original has already keeps its name and its values,
\* and the column of df_unique gets the suffix
MergedRow(frame, i, cluster_id, meeting_count) ==
  LET left == [buyerid |-> frame[i].buyerid,
               meetingDate |-> frame[i].meetingDate,
               currentLatitude |-> frame[i].currentLatitude,
               currentLongitude |-> frame[i].currentLongitude,
               traderName |-> frame[i].traderName,
               buyerName |-> frame[i].buyerName,
               buyerPhone |-> frame[i].buyerPhone]
  IN IF HasColumn(frame, "cluster_id") /\ HasColumn(frame, "meeting_count")
     THEN left @@ [cluster_id |-> frame[i].cluster_id,
                   meeting_count |-> frame[i].meeting_count,
                   cluster_id_unique |-> cluster_id,
                   meeting_count_unique |-> meeting_count]
     ELSE IF HasColumn(frame, "cluster_id")
     THEN left @@ [cluster_id |-> frame[i].cluster_id,
                   meeting_count |-> meeting_count,
                   cluster_id_unique |-> cluster_id]
     ELSE IF HasColumn(frame, "meeting_count")
     THEN left @@ [cluster_id |-> cluster_id,
                   meeting_count |-> frame[i].meeting_count,
                   meeting_count_unique |-> meeting_count]
     ELSE left @@ [cluster_id |-> cluster_id, meeting_count |-> meeting_count]

\* df_with_clusters, for a frame with at least one row
ClusterRows(frame, radius, ms) ==
  LET u == UniqueRows(frame)
      lab == DBSCAN(UniqueCoords(frame), radius, ms)
  IN [i \in 1..Len(frame) |->
        MergedRow(frame, i, MergeClusterId(frame, u, lab, i),
                  MergeMeetingCount(frame, u, i))]

\* without the test for an empty frame DBSCAN.fit raises on zero samples
cluster_by_gps_no_guard(frame, radius, ms) ==
  IF Len(frame) = 0 THEN <<"ValueError">> ELSE ClusterRows(frame, radius, ms)

cluster_by_gps(frame, radius, ms) ==
  IF Len(frame) = 0 THEN <<>> ELSE ClusterRows(frame, radius, ms)

\* the columns of the frame cluster_by_gps returns
ResultColumns(frame, columns) ==
  IF Len(frame) = 0 THEN columns \cup {"cluster_id"}
  ELSE columns \cup {"cluster_id", "meeting_count"}
         \cup {c \in {"cluster_id_unique", "meeting_count_unique"} :
                 \/ c = "cluster_id_unique" /\ "cluster_id" \in columns
                 \/ c = "meeting_count_unique" /\ "meeting_count" \in columns}

\* the columns of the frame passed to cluster_by_gps, once it has returned:
\* df['cluster_id'] = -1 is done on the argument itself when it has no
\* rows, every other frame is copied first
ArgumentColumns(frame, columns) ==
  IF Len(frame) = 0 THEN columns \cup {"cluster_id"} ELSE columns

----------------------------------------------------------------------------
(* calculate_cluster_stats *)

RECURSIVE SortedSeq(_)
SortedSeq(S) ==
  IF S = {} THEN <<>>
  ELSE LET m == CHOOSE x \in S : \A y \in S : x <= y
       IN <<m>> \o SortedSeq(S \ {m})

RECURSIVE SumSeq(_)
SumSeq(s) == IF Len(s) = 0 THEN 0 ELSE s[1] + SumSeq(Tail(s))

\* Series.mean()
Mean(s) == [sum |-> SumSeq(s), n |-> Len(s)]

UniqueBuyers_all_rows(frame) ==
  SortedSeq({i \in 1..Len(frame) : frame[i].cluster_id >= 0})

\* clustered.drop_duplicates(subset=['buyerid', 'cluster_id']): the row
\* indices kept, the first row of every (buyerid, cluster_id) in row order
UniqueBuyers(frame) ==
  SortedSeq({i \in 1..Len(frame) :
               /\ frame[i].cluster_id >= 0
               /\ \A j \in 1..(i - 1) :
                    ~(frame[j].buyerid = frame[i].buyerid
                      /\ frame[j].cluster_id = frame[i].cluster_id)})

\* the rows of unique_buyers in the group of cluster c
GroupRows(frame, c) ==
  LET InGroup(i) == frame[i].cluster_id = c
  IN SelectSeq(UniqueBuyers(frame), InGroup)

\* one row of groupby('cluster_id').agg({...}).reset_index()
StatsRow(frame, c) ==
  LET g == GroupRows(frame, c)
  IN [cluster_id |-> c,
      \* 'count' counts the buyerid cells that are not missing
      retailer_count |-> Cardinality({k \in 1..Len(g) : frame[g[k]].buyerid # NoBuyerId}),
      trader_count |-> Cardinality({frame[g[k]].traderName : k \in 1..Len(g)}),
      retailer_names |-> [k \in 1..Len(g) |-> frame[g[k]].buyerName],
      phone_numbers |-> [k \in 1..Len(g) |-> frame[g[k]].buyerPhone],
      center_lat |-> Mean([k \in 1..Len(g) |-> frame[g[k]].currentLatitude]),
      center_lon |-> Mean([k \in 1..Len(g) |-> frame[g[k]].currentLongitude])]

calculate_cluster_stats(frame) ==
  LET ids == SortedSeq({frame[i].cluster_id : i \in {j \in 1..Len(frame) : frame[j].cluster_id >= 0}})
  IN [k \in 1..Len(ids) |-> StatsRow(frame, ids[k])]

----------------------------------------------------------------------------
(* calculate_cluster_risk_score *)

\* f"cluster_{cluster_id}"
ClusterKey(cluster_id) == <<"cluster", cluster_id>>

\* Factor 1: number of retailers
SizeFactor(retailer_count) ==
  IF retailer_count >= 5 THEN 30
  ELSE IF retailer_count >= 3 THEN 20
  ELSE IF retailer_count >= 2 THEN 10
  ELSE 0

\* Factor 2: a single trader managing all
TraderFactor(trader_count) == IF trader_count = 1 THEN 25 ELSE 0

\* similarity_results[cluster_key].get('similar_name_pairs', 0)
GetSimilarNamePairs(entry) ==
  IF "similar_name_pairs" \in DOMAIN entry THEN entry["similar_name_pairs"] ELSE 0

NameFactor_uncapped(cluster_id, sim) ==
  IF ClusterKey(cluster_id) \in DOMAIN sim
  THEN GetSimilarNamePairs(sim[ClusterKey(cluster_id)]) * 15
  ELSE 0

\* Factor 3: name similarity, read from similarity_results
NameFactor(cluster_id, sim) ==
  IF ClusterKey(cluster_id) \in DOMAIN sim
  THEN Min(GetSimilarNamePairs(sim[ClusterKey(cluster_id)]) * 15, 30)
  ELSE 0

\* Factor 4: len(set(phone_list)) < len(phone_list)
PhoneFactor(phone_list) ==
  IF Cardinality(Range(phone_list)) < Len(phone_list) THEN 15 ELSE 0

\* the body of the loop over cluster_stats.iterrows()
RowScore(row, sim) ==
  Min(SizeFactor(row.retailer_count) + TraderFactor(row.trader_count)
        + NameFactor(row.cluster_id, sim) + PhoneFactor(row.phone_numbers),
      100)

RiskLevel_strict(x) == IF x > 60 THEN "High" ELSE IF x > 30 THEN "Medium" ELSE "Low"

\* lambda x: 'High' if x >= 60 else ('Medium' if x >= 30 else 'Low')
RiskLevel(x) == IF x >= 60 THEN "High" ELSE IF x >= 30 THEN "Medium" ELSE "Low"

calculate_cluster_risk_score(stats, sim) ==
  [i \in 1..Len(stats) |->
     LET score == RowScore(stats[i], sim)
     IN [cluster_id |-> stats[i].cluster_id,
         retailer_count |-> stats[i].retailer_count,
         trader_count |-> stats[i].trader_count,
         retailer_names |-> stats[i].retailer_names,
         phone_numbers |-> stats[i].phone_numbers,
         center_lat |-> stats[i].center_lat,
         center_lon |-> stats[i].center_lon,
         risk_score |-> score,
         risk_level |-> RiskLevel(score)]]

----------------------------------------------------------------------------
(* Text cells.  A string is the sequence of its characters; a missing cell
   (NaN / None) is the sequence holding the one marker below. *)

Missing == <<"NaN">>

\* pd.isna(x)
IsNa(x) == x = Missing

\* the characters of the model, in code point order
Alphabet == <<" ", "-", "1", "2", "K", "N", "R", "T", "a", "j", "k", "n", "r">>

Ord(c) == CHOOSE i \in 1..Len(Alphabet) : Alphabet[i] = c

Whitespace == {" "}

Digits == {"1", "2"}

\* str(x): a missing cell prints as nan
Str(x) == IF IsNa(x) THEN <<"n", "a", "n">> ELSE x

LowerChar(c) ==
  IF c = "K" THEN "k" ELSE IF c = "N" THEN "n" ELSE IF c = "R" THEN "r"
  ELSE IF c = "T" THEN "t" ELSE c

\* str.lower()
Lower(s) == [i \in 1..Len(s) |-> LowerChar(s[i])]

RECURSIVE LStrip(_)
LStrip(s) == IF s # <<>> /\ Head(s) \in Whitespace THEN LStrip(Tail(s)) ELSE s

RECURSIVE RStrip(_)
RStrip(s) ==
  IF s # <<>> /\ s[Len(s)] \in Whitespace THEN RStrip(SubSeq(s, 1, Len(s) - 1)) ELSE s

\* str.strip()
Strip(s) == RStrip(LStrip(s))

\* str.split(): the maximal runs of characters that are not whitespace
RECURSIVE Split(_)
Split(s) ==
  LET t == LStrip(s)
  IN IF t = <<>> THEN <<>>
     ELSE LET stops == {i \in 1..Len(t) : t[i] \in Whitespace}
              n == IF stops = {} THEN Len(t) + 1
                   ELSE CHOOSE i \in stops : \A j \in stops : i <= j
          IN <<SubSeq(t, 1, n - 1)>> \o Split(SubSeq(t, n, Len(t)))

\* s < t for two strings: by the first character that differs, a proper
\* prefix first
RECURSIVE LexLess(_, _)
LexLess(s, t) ==
  IF t = <<>> THEN FALSE
  ELSE IF s = <<>> THEN TRUE
  ELSE IF Head(s) = Head(t) THEN LexLess(Tail(s), Tail(t))
  ELSE Ord(Head(s)) < Ord(Head(t))

\* sorted(tokens)
RECURSIVE SortedTokens(_)
SortedTokens(tokens) ==
  IF tokens = <<>> THEN <<>>
  ELSE LET m == CHOOSE i \in 1..Len(tokens) :
                  /\ \A j \in 1..Len(tokens) : ~LexLess(tokens[j], tokens[i])
                  /\ \A j \in 1..(i - 1) : tokens[j] # tokens[i]
       IN <<tokens[m]>> \o
          SortedTokens(SubSeq(tokens, 1, m - 1) \o SubSeq(tokens, m + 1, Len(tokens)))

\* " ".join(tokens)
RECURSIVE Join(_)
Join(tokens) ==
  IF tokens = <<>> THEN <<>>
  ELSE IF Len(tokens) = 1 THEN tokens[1]
  ELSE tokens[1] \o <<" ">> \o Join(Tail(tokens))

Max(a, b) == IF a >= b THEN a ELSE b

\* length of the longest common subsequence of two strings
RECURSIVE LCS(_, _)
LCS(s, t) ==
  IF s = <<>> \/ t = <<>> THEN 0
  ELSE IF Head(s) = Head(t) THEN 1 + LCS(Tail(s), Tail(t))
  ELSE Max(LCS(Tail(s), t), LCS(s, Tail(t)))

RECURSIVE GCD(_, _)
GCD(a, b) == IF b = 0 THEN a ELSE GCD(b, a % b)

\* a score in 0..100 as the fraction num / den in lowest terms
Fraction(num, den) ==
  LET g == GCD(num, den) IN [num |-> num \div g, den |-> den \div g]

\* fuzz.ratio: 100 * (1 - indel distance / (len(s) + len(t))), with
\* indel distance = len(s) + len(t) - 2 * LCS; 100 for two empty strings
Ratio(s, t) ==
  IF Len(s) + Len(t) = 0 THEN Fraction(100, 1)
  ELSE Fraction(200 * LCS(s, t), Len(s) + Len(t))

\* fuzz.token_sort_ratio
TokenSortRatio(s, t) ==
  Ratio(Join(SortedTokens(Split(s))), Join(SortedTokens(Split(t))))

calculate_name_similarity(name1, name2) ==
  IF IsNa(name1) \/ IsNa(name2) THEN Fraction(0, 1)
  ELSE TokenSortRatio(Strip(Lower(Str(name1))), Strip(Lower(Str(name2))))

\* similarity >= name_threshold
AtLeast(similarity, threshold) == similarity.num >= threshold * similarity.den

\* max(a, b) of two scores
MaxScore(a, b) == IF a.num * b.den >= b.num * a.den THEN a ELSE b

----------------------------------------------------------------------------
(* analyze_cluster_similarity, analyze_all_clusters *)

\* df[df['cluster_id'] == cluster_id]: the rows of the cluster, in row order
ClusterData(frame, cluster_id) ==
  LET InCluster(i) == frame[i].cluster_id = cluster_id
      idx == SelectSeq([i \in 1..Len(frame) |-> i], InCluster)
  IN [k \in 1..Len(idx) |-> frame[idx[k]]]

\* the unique buyers of the cluster: its rows sorted by meetingDate,
\* latest first, then drop_duplicates(subset=['buyerid'], keep='first')
ClusterRetailers(frame, cluster_id) ==
  LET data == ClusterData(frame, cluster_id)
      u == UniqueRows(data)
  IN [k \in 1..Len(u) |-> data[u[k]]]

RECURSIVE PairsFrom(_, _, _)
PairsFrom(n, i, j) ==
  IF i >= n THEN <<>>
  ELSE IF j > n THEN PairsFrom(n, i + 1, i + 2)
  ELSE <<(<<i, j>>)>> \o PairsFrom(n, i, j + 1)

Combinations_adjacent(n) == [i \in 1..(n - 1) |-> <<i, i + 1>>]

\* combinations(range(n), 2), positions counted from 1
Combinations(n) == PairsFrom(n, 1, 2)

\* the loop over the pairs: a pair is appended when its similarity
\* reaches the threshold
RECURSIVE NamePairs(_, _, _)
NamePairs(retailers, pairs, threshold) ==
  IF pairs = <<>> THEN <<>>
  ELSE LET r1 == retailers[pairs[1][1]]
           r2 == retailers[pairs[1][2]]
           similarity == calculate_name_similarity(r1.buyerName, r2.buyerName)
       IN (IF AtLeast(similarity, threshold)
           THEN <<[retailer1 |-> r1.buyerName, retailer2 |-> r2.buyerName,
                   id1 |-> r1.buyerid, id2 |-> r2.buyerid,
                   similarity |-> similarity]>>
           ELSE <<>>)
          \o NamePairs(retailers, Tail(pairs), threshold)

RECURSIVE SortedStrings(_)
SortedStrings(S) ==
  IF S = {} THEN <<>>
  ELSE LET m == CHOOSE x \in S : \A y \in S : ~LexLess(y, x)
       IN <<m>> \o SortedStrings(S \ {m})

\* the keys of cluster_data.groupby('buyerPhone'), sorted; rows whose
\* phone is missing belong to no group
PhoneKeys(retailers) ==
  SortedStrings({retailers[k].buyerPhone : k \in 1..Len(retailers)} \ {Missing})

\* one row of phone_counts: the names and ids of the group, in row order
PhoneCountsRow(retailers, phone) ==
  LET HasPhone(k) == retailers[k].buyerPhone = phone
      g == SelectSeq([k \in 1..Len(retailers) |-> k], HasPhone)
  IN [buyerPhone |-> phone,
      buyerName |-> [k \in 1..Len(g) |-> retailers[g[k]].buyerName],
      buyerid |-> [k \in 1..Len(g) |-> retailers[g[k]].buyerid]]

IsPhoneNumber_any(x) == TRUE

\* lambda x: len(str(x)) > 0 and str(x) != 'nan'
IsPhoneNumber(x) == Len(Str(x)) > 0 /\ Str(x) # <<"n", "a", "n">>

\* the loop over phone_duplicates.iterrows()
PhoneGroups(retailers) ==
  LET keys == PhoneKeys(retailers)
      phone_counts == [k \in 1..Len(keys) |-> PhoneCountsRow(retailers, keys[k])]
      IsDuplicate(row) == IsPhoneNumber(row.buyerPhone) /\ Len(row.buyerName) > 1
      phone_duplicates == SelectSeq(phone_counts, IsDuplicate)
  IN [k \in 1..Len(phone_duplicates) |->
        [phone |-> phone_duplicates[k].buyerPhone,
         retailers |-> phone_duplicates[k].buyerName,
         ids |-> phone_duplicates[k].buyerid,
         count |-> Len(phone_duplicates[k].buyerName)]]

\* max([pair['similarity'] for pair in name_pairs], default=0)
RECURSIVE MaxSimilarity(_)
MaxSimilarity(name_pairs) ==
  IF name_pairs = <<>> THEN Fraction(0, 1)
  ELSE IF Len(name_pairs) = 1 THEN name_pairs[1].similarity
  ELSE MaxScore(name_pairs[1].similarity, MaxSimilarity(Tail(name_pairs)))

analyze_cluster_similarity(frame, cluster_id, threshold) ==
  LET retailers == ClusterRetailers(frame, cluster_id)
  IN IF Len(retailers) < 2
     THEN [cluster_id |-> cluster_id,
           similar_name_pairs |-> 0,
           phone_duplicates |-> 0,
           name_pairs |-> <<>>,
           phone_groups |-> <<>>,
           max_similarity |-> Fraction(0, 1)]
     ELSE LET name_pairs == NamePairs(retailers, Combinations(Len(retailers)), threshold)
              phone_groups == PhoneGroups(retailers)
          IN [cluster_id |-> cluster_id,
              similar_name_pairs |-> Len(name_pairs),
              phone_duplicates |-> Len(phone_groups),
              name_pairs |-> name_pairs,
              phone_groups |-> phone_groups,
              max_similarity |-> MaxSimilarity(name_pairs)]

\* the dict keyed by f"cluster_{cluster_id}" over the cluster ids >= 0
analyze_all_clusters(frame, threshold) ==
  LET cluster_ids == {frame[i].cluster_id : i \in {j \in 1..Len(frame) : frame[j].cluster_id >= 0}}
  IN [key \in {ClusterKey(c) : c \in cluster_ids} |->
        analyze_cluster_similarity(frame, key[2], threshold)]

----------------------------------------------------------------------------
(* calculate_distance_matrix *)

\* geodesic(p, q).meters, kept as the squared planar distance in grid steps
Geodesic(p, q) == Dist2(p, q)

DistanceEntries_upper(points) ==
  [i \in 1..Len(points) |->
     [j \in 1..Len(points) |-> IF i < j THEN Geodesic(points[i], points[j]) ELSE 0]]

\* np.zeros((n, n)), then for every i < j the distance of retailers i and
\* j written to [i, j] and to [j, i]
DistanceEntries(points) ==
  [i \in 1..Len(points) |->
     [j \in 1..Len(points) |->
        IF i < j THEN Geodesic(points[i], points[j])
        ELSE IF j < i THEN Geodesic(points[j], points[i])
        ELSE 0]]

\* pd.DataFrame()
EmptyFrame == [index |-> <<>>, columns |-> <<>>, values |-> <<>>]

\* the frame returned: its index and columns are the buyer names; an empty
\* frame for fewer than two unique buyers
calculate_distance_matrix(frame, cluster_id) ==
  LET retailers == ClusterRetailers(frame, cluster_id)
  IN IF Len(retailers) < 2 THEN EmptyFrame
     ELSE [index |-> [k \in 1..Len(retailers) |-> retailers[k].buyerName],
           columns |-> [k \in 1..Len(retailers) |-> retailers[k].buyerName],
           values |-> DistanceEntries(
                        [k \in 1..Len(retailers) |->
                           <<retailers[k].currentLatitude, retailers[k].currentLongitude>>])]

----------------------------------------------------------------------------
(* validate_csv, clean_and_process_data *)

required_columns_short ==
  <<"meetingDate", "Darkstore", "traderName", "traderId",
    "buyerName", "buyerid", "buyerPhone",
    "currentLatitude", "currentLongitude">>

required_columns ==
  <<"meetingDate", "Darkstore", "traderName", "traderId",
    "buyerName", "buyerid", "buyerPhone",
    "currentLatitude", "currentLongitude",
    "selfie", "verificationDoc">>

\* sep.join(names), as the sequence of its pieces
RECURSIVE JoinWith(_, _)
JoinWith(sep, names) ==
  IF names = <<>> THEN <<>>
  ELSE IF Len(names) = 1 THEN names
  ELSE <<names[1], sep>> \o JoinWith(sep, Tail(names))

\* (is_valid, error_msg); None is the empty message
validate_csv(frame) ==
  LET Absent(col) == col \notin frame.columns
      missing_columns == SelectSeq(required_columns, Absent)
  IN IF missing_columns # <<>>
     THEN <<FALSE, <<"Missing required columns: ">> \o JoinWith(", ", missing_columns)>>
     ELSE <<TRUE, <<>>>>

\* A coordinate cell of the file is a number (kind "num", val in grid
\* steps), an infinity, text that is no number, or an empty cell.
NaNCell == [kind |-> "nan", val |-> 0]

\* pd.to_numeric(cell, errors='coerce')
ToNumeric(cell) == IF cell.kind = "text" THEN NaNCell ELSE cell

\* the coordinates are counted in grid steps of 1/StepsPerDegree degree
StepsPerDegree == 100

LatLimit == 90 * StepsPerDegree

LonLimit == 180 * StepsPerDegree

\* Series.between(lo, hi), both ends included; false for NaN and infinities
Between(cell, lo, hi) == cell.kind = "num" /\ lo <= cell.val /\ cell.val <= hi

\* an empty or unparsable meetingDate cell
BadDate == -1

\* pd.to_datetime(cell, errors='coerce')
ToDatetime(cell) == IF cell = BadDate THEN NaT ELSE cell

\* str.replace(r'\D', '', regex=True)
DigitsOnly(s) == LET IsDigit(c) == c \in Digits IN SelectSeq(s, IsDigit)

\* df.dropna(subset=['currentLatitude', 'currentLongitude']) after to_numeric
HasCoordinates(row) ==
  /\ ToNumeric(row.currentLatitude).kind # "nan"
  /\ ToNumeric(row.currentLongitude).kind # "nan"

\* latitude between -90 and 90 and longitude between -180 and 180
InRange(row) ==
  /\ Between(ToNumeric(row.currentLatitude), -LatLimit, LatLimit)
  /\ Between(ToNumeric(row.currentLongitude), -LonLimit, LonLimit)

\* removed_count = initial_count - len(df) after dropna
RemovedCount(rows) == Len(rows) - Len(SelectSeq(rows, HasCoordinates))

\* the columns of the frame clean_and_process_data returns
ProcessedColumns(columns) ==
  columns \cup {"has_valid_gps", "has_selfie", "has_verification"}

\* the frame clean_and_process_data returns
clean_and_process_data(rows) ==
  LET kept == SelectSeq(SelectSeq(rows, HasCoordinates), InRange)
  IN [i \in 1..Len(kept) |->
        [buyerid |-> kept[i].buyerid,
         meetingDate |-> ToDatetime(kept[i].meetingDate),
         currentLatitude |-> ToNumeric(kept[i].currentLatitude).val,
         currentLongitude |-> ToNumeric(kept[i].currentLongitude).val,
         traderName |-> Strip(Str(kept[i].traderName)),
         buyerName |-> Strip(Str(kept[i].buyerName)),
         buyerPhone |-> DigitsOnly(Str(kept[i].buyerPhone))]]

----------------------------------------------------------------------------
(* Specification SpecScore: calculate_cluster_risk_score applied to cluster
   rows and similarity results drawn from bounded sets *)

PhoneValues == {"111", "222"}

\* the rows of a cluster_stats frame: row i carries cluster id i - 1
ScoreRows(i) ==
  [cluster_id : {i - 1},
   retailer_count : 0..MaxRetailerCount,
   trader_count : 1..MaxTraderCount,
   retailer_names : {<<>>},
   phone_numbers : SeqsUpTo(PhoneValues, MaxPhoneLen),
   center_lat : {[sum |-> 0, n |-> 1]},
   center_lon : {[sum |-> 0, n |-> 1]}]

\* a similarity entry: the dict analyze_cluster_similarity returns, or one
\* without the similar_name_pairs key
SimEntries == {<<>>} \cup [{"similar_name_pairs"} -> 0..MaxPairs]

ScoreInputs ==
  {<<stats, sim>> :
     stats \in UNION {[1..n -> UNION {ScoreRows(i) : i \in 1..n}] : n \in 0..MaxRows},
     sim \in UNION {[K -> SimEntries] : K \in SUBSET {ClusterKey(c) : c \in 0..(MaxRows - 1)}}}

InitScore ==
  /\ pc = "score_input"
  /\ \E inp \in ScoreInputs :
       /\ \A i \in 1..Len(inp[1]) : inp[1][i].cluster_id = i - 1
       /\ cluster_stats = inp[1]
       /\ similarity_results = inp[2]
  /\ risk_stats = <<>>
  /\ df = <<>> /\ df_columns = {} /\ df_clustered = <<>>
  /\ radius_meters = 0 /\ min_samples = 0
  /\ coords = <<>> /\ labels = <<>>
  /\ NoRunState

CalculateRiskScore ==
  /\ pc = "score_input"
  /\ risk_stats' = calculate_cluster_risk_score(cluster_stats, similarity_results)
  /\ pc' = "scored"
  /\ UNCHANGED <<df, df_columns, radius_meters, min_samples, df_clustered, cluster_stats,
                 similarity_results, coords, labels, run_vars>>

NextScore == CalculateRiskScore

SpecScore == InitScore /\ [][NextScore]_vars

----------------------------------------------------------------------------
(* Specification SpecDbscan: the DBSCAN fit of cluster_by_gps applied to the
   coordinates of canonical retailers, in the row order of df_unique *)

Grid == (0..MaxLat) \X (0..MaxLon)

\* retailers along one street, each at most one step from the previous
\* one in row order
RECURSIVE Walks(_)
Walks(n) ==
  IF n = 1 THEN {<<(<<0, x>>)>> : x \in 0..MaxStreet}
  ELSE LET shorter == Walks(n - 1)
       IN shorter \cup
          UNION {{Append(w, <<0, y>>) :
                    y \in {z \in 0..MaxStreet : z - w[Len(w)][2] \in {-1, 0, 1}}} :
                 w \in {v \in shorter : Len(v) = n - 1}}

DbscanInputs == (SeqsUpTo(Grid, MaxPoints) \ {<<>>}) \cup Walks(MaxWalk)

InitDbscan ==
  /\ pc = "fit_input"
  /\ coords \in DbscanInputs
  /\ radius_meters \in 1..MaxRadius
  /\ min_samples \in 1..MaxMinSamples
  /\ labels = <<>>
  /\ df = <<>> /\ df_columns = {} /\ df_clustered = <<>>
  /\ cluster_stats = <<>> /\ similarity_results = <<>> /\ risk_stats = <<>>
  /\ NoRunState

Fit ==
  /\ pc = "fit_input"
  /\ labels' = DBSCAN(coords, radius_meters, min_samples)
  /\ pc' = "fitted"
  /\ UNCHANGED <<df, df_columns, radius_meters, min_samples, df_clustered, cluster_stats,
                 similarity_results, risk_stats, coords, run_vars>>

NextDbscan == Fit

SpecDbscan == InitDbscan /\ [][NextDbscan]_vars

----------------------------------------------------------------------------
(* Specification Spec: cluster_by_gps, then calculate_cluster_stats, on
   cleaned visit records and clustering settings drawn from bounded sets *)

TraderNames == {"T1", "T2"}

VisitRecords ==
  [buyerid : 1..MaxBuyers,
   meetingDate : {NaT} \cup 1..MaxDate,
   currentLatitude : 0..MaxVisitLat,
   currentLongitude : 0..MaxVisitLon,
   traderName : TraderNames,
   buyerName : {"Raj Traders"},
   buyerPhone : {"111"}]

\* buyer ids are only compared for equality: the inputs number the buyers
\* in the order of their first record
BuyersInOrder(frame) ==
  \A i \in 1..Len(frame) :
     \/ frame[i].buyerid = 1
     \/ \E j \in 1..(i - 1) : frame[j].buyerid >= frame[i].buyerid - 1

Init ==
  /\ pc = "loaded"
  /\ df \in {frame \in SeqsUpTo(VisitRecords, MaxRecords) : BuyersInOrder(frame)}
  /\ df_columns = ProcessedColumns(Range(required_columns))
  /\ radius_meters \in 1..MaxRunRadius
  /\ min_samples \in 2..MaxRunMinSamples
  /\ df_clustered = <<>>
  /\ cluster_stats = <<>>
  /\ similarity_results = <<>> /\ risk_stats = <<>>
  /\ coords = <<>> /\ labels = <<>>
  /\ NoRunState

ClusterByGps ==
  /\ pc = "loaded"
  /\ df_clustered' = cluster_by_gps(df, radius_meters, min_samples)
  /\ coords' = IF Len(df) = 0 THEN <<>> ELSE UniqueCoords(df)
  /\ labels' = IF Len(df) = 0 THEN <<>>
               ELSE DBSCAN(UniqueCoords(df), radius_meters, min_samples)
  /\ df_columns' = ArgumentColumns(df, df_columns)
  /\ pc' = "clustered"
  /\ UNCHANGED <<df, radius_meters, min_samples, cluster_stats,
                 similarity_results, risk_stats, run_vars>>

CalculateClusterStats ==
  /\ pc = "clustered"
  /\ cluster_stats' = calculate_cluster_stats(df_clustered)
  /\ pc' = "stats"
  /\ UNCHANGED <<df, df_columns, radius_meters, min_samples, df_clustered,
                 similarity_results, risk_stats, coords, labels, run_vars>>

Next == ClusterByGps \/ CalculateClusterStats

Spec == Init /\ [][Next]_vars

----------------------------------------------------------------------------
(* Specification SpecRecluster: cluster_by_gps on cleaned visit records,
   then once more, with other settings, on the frame it returned *)

\* the trader of a visit has no part in the clustering
ReclusterRecords == {r \in VisitRecords : r.traderName = "T1"}

InitRecluster ==
  /\ pc = "loaded"
  /\ df \in {frame \in SeqsUpTo(ReclusterRecords, MaxRecords) :
               Len(frame) > 0 /\ BuyersInOrder(frame)}
  /\ df_columns = ProcessedColumns(Range(required_columns))
  /\ radius_meters \in 1..MaxReclusterRadius
  /\ min_samples \in 2..MaxReclusterMinSamples
  /\ df_clustered = <<>>
  /\ cluster_stats = <<>>
  /\ similarity_results = <<>> /\ risk_stats = <<>>
  /\ coords = <<>> /\ labels = <<>>
  /\ NoRunState

\* the frame returned becomes the input of a second call, whose settings
\* differ from those of the first
ClusterAgain ==
  /\ pc = "clustered"
  /\ ~HasColumn(df, "cluster_id")
  /\ df' = df_clustered
  /\ df_columns' = ResultColumns(df, df_columns)
  /\ \E radius \in 1..MaxReclusterRadius, ms \in 2..MaxReclusterMinSamples :
       /\ <<radius, ms>> # <<radius_meters, min_samples>>
       /\ radius_meters' = radius
       /\ min_samples' = ms
  /\ pc' = "loaded"
  /\ UNCHANGED <<df_clustered, cluster_stats, similarity_results, risk_stats,
                 coords, labels, run_vars>>

NextRecluster == ClusterByGps \/ ClusterAgain

SpecRecluster == InitRecluster /\ [][NextRecluster]_vars

----------------------------------------------------------------------------
(* The dashboard run: the uploaded frame is validated and cleaned, then
   Run Analysis clusters it, computes the statistics, the similarity
   results and the risk scores; the distance matrix is computed for a
   cluster id on request. *)

ValidateCsv ==
  /\ pc = "uploaded"
  /\ is_valid' = validate_csv(uploaded)[1]
  /\ error_msg' = validate_csv(uploaded)[2]
  /\ pc' = IF validate_csv(uploaded)[1] THEN "validated" ELSE "rejected"
  /\ UNCHANGED <<df, df_columns, radius_meters, min_samples, df_clustered, cluster_stats,
                 similarity_results, risk_stats, coords, labels,
                 uploaded, removed_count, name_threshold, distance_matrix,
                 selected_cluster_id>>

CleanAndProcessData ==
  /\ pc = "validated"
  /\ df' = clean_and_process_data(uploaded.rows)
  /\ df_columns' = ProcessedColumns(uploaded.columns)
  /\ removed_count' = RemovedCount(uploaded.rows)
  /\ pc' = "loaded"
  /\ UNCHANGED <<radius_meters, min_samples, df_clustered, cluster_stats,
                 similarity_results, risk_stats, coords, labels,
                 uploaded, is_valid, error_msg, name_threshold, distance_matrix,
                 selected_cluster_id>>

AnalyzeAllClusters ==
  /\ pc = "stats"
  /\ similarity_results' = analyze_all_clusters(df_clustered, name_threshold)
  /\ pc' = "analyzed"
  /\ UNCHANGED <<df, df_columns, radius_meters, min_samples, df_clustered, cluster_stats,
                 risk_stats, coords, labels, run_vars>>

\* selected_cluster is not None and selected_cluster in
\* filtered_clusters['cluster_id'].values, with every risk level in the
\* filter of the table (its default)
DetailsShown(stats, selected_cluster) ==
  /\ selected_cluster # NoSelection
  /\ \E k \in 1..Len(stats) : stats[k].cluster_id = selected_cluster

\* if len(cluster_stats) > 0: calculate_cluster_risk_score(...); the results
\* are stored in the session state and the page is drawn from them, with
\* the detailed view of the cluster selected_cluster_id names
ScoreClusters ==
  /\ pc = "analyzed"
  /\ LET stats == IF Len(cluster_stats) > 0
                  THEN calculate_cluster_risk_score(cluster_stats, similarity_results)
                  ELSE cluster_stats
     IN /\ risk_stats' = stats
        /\ distance_matrix' =
             IF DetailsShown(stats, selected_cluster_id)
             THEN calculate_distance_matrix(df_clustered, selected_cluster_id)
             ELSE EmptyFrame
  /\ pc' = "done"
  /\ UNCHANGED <<df, df_columns, radius_meters, min_samples, df_clustered, cluster_stats,
                 similarity_results, coords, labels,
                 uploaded, is_valid, error_msg, removed_count, name_threshold,
                 selected_cluster_id>>

CalculateDistanceMatrix ==
  /\ pc = "done"
  /\ \E cluster_id \in -1..MaxClusterId :
       /\ selected_cluster_id' = cluster_id
       /\ distance_matrix' = calculate_distance_matrix(df_clustered, cluster_id)
  /\ pc' = "matrix"
  /\ UNCHANGED <<df, df_columns, radius_meters, min_samples, df_clustered, cluster_stats,
                 similarity_results, risk_stats, coords, labels,
                 uploaded, is_valid, error_msg, removed_count, name_threshold>>

NextRun ==
  \/ ValidateCsv
  \/ CleanAndProcessData
  \/ ClusterByGps
  \/ CalculateClusterStats
  \/ AnalyzeAllClusters
  \/ ScoreClusters
  \/ CalculateDistanceMatrix

\* the state of a run before validation, for an uploaded frame
InitRun(frame, threshold, ms) ==
  /\ pc = "uploaded"
  /\ uploaded = frame
  /\ name_threshold = threshold
  /\ radius_meters = 1
  /\ min_samples = ms
  /\ is_valid = FALSE /\ error_msg = <<>>
  /\ removed_count = 0
  /\ distance_matrix = EmptyFrame
  /\ selected_cluster_id = NoSelection
  /\ df = <<>> /\ df_columns = {} /\ df_clustered = <<>>
  /\ cluster_stats = <<>>
  /\ similarity_results = <<>> /\ risk_stats = <<>>
  /\ coords = <<>> /\ labels = <<>>

AllColumns == Range(required_columns) \cup {"remarks"}

Num(n) == [kind |-> "num", val |-> n]

----------------------------------------------------------------------------
(* Specification SpecUpload: runs over files with columns missing, and over
   files with all columns whose records have coordinates of every kind and
   possibly no buyerid *)

ColumnSets ==
  {AllColumns \ M : M \in {N \in SUBSET AllColumns : Cardinality(N) <= MaxMissingColumns}}

GoodRow ==
  [buyerid |-> 1, meetingDate |-> 1,
   currentLatitude |-> Num(0), currentLongitude |-> Num(0),
   traderName |-> <<"T", "1">>, buyerName |-> <<"R", "a", "j">>,
   buyerPhone |-> <<"1", "1">>]

LatCells ==
  {Num(0), Num(LatLimit), Num(LatLimit + 1), Num(-LatLimit - 1),
   [kind |-> "inf", val |-> 1], [kind |-> "text", val |-> 0], NaNCell}

LonCells ==
  {Num(0), Num(1), Num(LonLimit + 1), [kind |-> "text", val |-> 0]}

UploadRows ==
  [buyerid : {NoBuyerId} \cup 1..MaxUploadBuyers,
   meetingDate : {1},
   currentLatitude : LatCells,
   currentLongitude : LonCells,
   traderName : {<<"T", "1">>},
   buyerName : {<<"R", "a", "j">>},
   buyerPhone : {<<"1", "1">>}]

UploadFrames ==
  {[columns |-> c, rows |-> <<GoodRow>>] : c \in ColumnSets}
    \cup {[columns |-> AllColumns, rows |-> r] : r \in SeqsUpTo(UploadRows, MaxUploadRows)}

InitUpload == \E frame \in UploadFrames : InitRun(frame, 90, 2)

SpecUpload == InitUpload /\ [][NextRun]_vars

----------------------------------------------------------------------------
(* Specification SpecNames: runs over files whose records are at one place
   and differ in buyer, date and name *)

NameCells ==
  {Missing,
   <<"R", "a", "j">>,
   <<" ", "r", "a", "j">>,
   <<"R", "a", "k">>,
   <<"R", "a", "j", " ", "K">>,
   <<"K", " ", "R", "a", "j">>,
   <<"a", "n">>}

NameRows ==
  [buyerid : 1..MaxNameBuyers,
   meetingDate : 1..MaxNameDate,
   currentLatitude : {Num(0)},
   currentLongitude : {Num(0)},
   traderName : {<<"T", "1">>},
   buyerName : NameCells,
   buyerPhone : {<<"1", "1">>}]

NameThresholds == {50, 90, 100}

InitNames ==
  \E rows \in {r \in SeqsUpTo(NameRows, MaxNameRows) : BuyersInOrder(r)},
     threshold \in NameThresholds :
       \* a smaller min_samples changes the clusters of these files only
       \* when they hold a single buyer
       \E ms \in {m \in 1..MaxNameMinSamples :
                    m = MaxNameMinSamples \/ \A i \in 1..Len(rows) : rows[i].buyerid = 1} :
         InitRun([columns |-> AllColumns, rows |-> rows], threshold, ms)

SpecNames == InitNames /\ [][NextRun]_vars

----------------------------------------------------------------------------
(* Specification SpecPhones: runs over files whose records are within the
   radius of each other and differ in buyer, date, place and phone *)

PhoneCells == {Missing, <<"1", "1">>, <<"1", "-", "1">>, <<"2", "2">>}

PhoneRows ==
  [buyerid : 1..MaxPhoneBuyers,
   meetingDate : 1..MaxPhoneDate,
   currentLatitude : {Num(0)},
   currentLongitude : {Num(x) : x \in 0..MaxPhoneLon},
   traderName : {<<"T", "1">>},
   buyerName : {<<"R", "a", "j">>},
   buyerPhone : PhoneCells]

InitPhones ==
  \E rows \in {r \in SeqsUpTo(PhoneRows, MaxPhoneRows) : BuyersInOrder(r)} :
     InitRun([columns |-> AllColumns, rows |-> rows], 90, 2)

SpecPhones == InitPhones /\ [][NextRun]_vars

----------------------------------------------------------------------------
(* Specification SpecDates: runs over files whose records differ in buyer,
   place and meetingDate, the date cell being a day or a cell that does
   not parse *)

DateCells == {BadDate} \cup 1..MaxDateDay

DateRows ==
  [buyerid : 1..MaxDateBuyers,
   meetingDate : DateCells,
   currentLatitude : {Num(0)},
   currentLongitude : {Num(x) : x \in 0..MaxDateLon},
   traderName : {<<"T", "1">>},
   buyerName : {<<"R", "a", "j">>},
   buyerPhone : {<<"1", "1">>}]

InitDates ==
  \E rows \in {r \in SeqsUpTo(DateRows, MaxDateRows) : BuyersInOrder(r)} :
     \E ms \in 1..2 :
        InitRun([columns |-> AllColumns, rows |-> rows], 90, ms)

SpecDates == InitDates /\ [][NextRun]_vars

----------------------------------------------------------------------------
(* Specification SpecSession: a dashboard session.  After a run the user
   selects a cluster of the results (marker on the map or row of the
   table), changes the clustering settings and runs the analysis again, or
   uploads another file and runs the analysis on it. *)

\* files with one record per retailer, the retailers along a street
SessionFrames ==
  {[columns |-> AllColumns,
    rows |-> [i \in 1..Len(lon) |-> [GoodRow EXCEPT !.buyerid = i,
                                                   !.currentLongitude = Num(lon[i])]]] :
     lon \in SeqsUpTo(0..MaxSessionLon, MaxSessionRows)}

InitSession ==
  \E frame \in SessionFrames, radius \in 1..MaxSessionRadius :
     /\ InitRun(frame, 90, 2)
     /\ radius_meters = radius

\* a click on the marker of a cluster of cluster_stats, or on its row in
\* the table, stores its id in the session state; the page is drawn again
\* with the detailed view of that cluster
SelectCluster ==
  /\ pc \in {"done", "matrix"}
  /\ \E k \in 1..Len(risk_stats) :
       /\ selected_cluster_id' = risk_stats[k].cluster_id
       /\ distance_matrix' =
            calculate_distance_matrix(df_clustered, risk_stats[k].cluster_id)
  /\ pc' = "matrix"
  /\ UNCHANGED <<df, df_columns, radius_meters, min_samples, df_clustered, cluster_stats,
                 similarity_results, risk_stats, coords, labels,
                 uploaded, is_valid, error_msg, removed_count, name_threshold>>

\* the radius slider is moved and Run Analysis is pressed: the steps of the
\* run follow, on the frame of the loaded file
RunAnalysis ==
  /\ pc \in {"done", "matrix"}
  /\ \E radius \in 1..MaxSessionRadius : radius_meters' = radius
  /\ pc' = "loaded"
  /\ UNCHANGED <<df, df_columns, min_samples, df_clustered, cluster_stats,
                 similarity_results, risk_stats, coords, labels, run_vars>>

\* another file is uploaded; it is validated and cleaned, and the analysis
\* is run on it
UploadFile ==
  /\ pc \in {"done", "matrix"}
  /\ \E frame \in SessionFrames : uploaded' = frame
  /\ pc' = "uploaded"
  /\ UNCHANGED <<df, df_columns, radius_meters, min_samples, df_clustered, cluster_stats,
                 similarity_results, risk_stats, coords, labels,
                 is_valid, error_msg, removed_count, name_threshold,
                 distance_matrix, selected_cluster_id>>

NextSession ==
  \/ ValidateCsv
  \/ CleanAndProcessData
  \/ ClusterByGps
  \/ CalculateClusterStats
  \/ AnalyzeAllClusters
  \/ ScoreClusters
  \/ SelectCluster
  \/ RunAnalysis
  \/ UploadFile

SpecSession == InitSession /\ [][NextSession]_vars

----------------------------------------------------------------------------
(* Claims on the risk score, checked under SpecScore *)

DistinctPhones(phone_list) ==
  \A i, j \in 1..Len(phone_list) : i # j => phone_list[i] # phone_list[j]

\* the score the specification prescribes for a row, given its number of
\* similar name pairs (0 when the similarity results hold no entry for it)
ExpectedScore(row, pairs) ==
  LET S == IF row.retailer_count >= 5 THEN 30
           ELSE IF row.retailer_count >= 3 THEN 20
           ELSE IF row.retailer_count >= 2 THEN 10 ELSE 0
      C == IF row.trader_count = 1 THEN 25 ELSE 0
      N == IF 15 * pairs <= 30 THEN 15 * pairs ELSE 30
      P == IF DistinctPhones(row.phone_numbers) THEN 0 ELSE 15
  IN IF S + C + N + P <= 100 THEN S + C + N + P ELSE 100

\* the rows whose similarity entry is absent or carries its pair count
HasPairCount(row) ==
  ClusterKey(row.cluster_id) \in DOMAIN similarity_results
    => "similar_name_pairs" \in DOMAIN similarity_results[ClusterKey(row.cluster_id)]

PairCount(row) ==
  IF ClusterKey(row.cluster_id) \in DOMAIN similarity_results
  THEN similarity_results[ClusterKey(row.cluster_id)]["similar_name_pairs"]
  ELSE 0

\* C1: every row passed to calculate_cluster_risk_score gets
\* risk_score = min(S + C + N + P, 100), with S the size factor (30/20/10/0),
\* C = 25 for a single trader, N = min(15 * similar_name_pairs, 30) and 0
\* when the similarity results hold no entry for the cluster, P = 15 when
\* the phone list has repeated values; 2 retailers, 1 trader, 1 similar
\* pair and distinct phones score 50.
C1_RiskScoreFormula ==
  pc = "scored" =>
    /\ Len(risk_stats) = Len(cluster_stats)
    /\ \A i \in 1..Len(cluster_stats) :
         LET row == cluster_stats[i] IN
         HasPairCount(row) =>
           /\ risk_stats[i].cluster_id = row.cluster_id
           /\ risk_stats[i].risk_score = ExpectedScore(row, PairCount(row))
           /\ (/\ row.retailer_count = 2 /\ row.trader_count = 1
               /\ PairCount(row) = 1 /\ DistinctPhones(row.phone_numbers))
                => risk_stats[i].risk_score = 50

C1_Witness ==
  /\ pc = "scored"
  /\ \E i \in 1..Len(cluster_stats) :
       /\ cluster_stats[i].retailer_count = 2
       /\ cluster_stats[i].trader_count = 1
       /\ ClusterKey(cluster_stats[i].cluster_id) \in DOMAIN similarity_results
       /\ HasPairCount(cluster_stats[i])
       /\ PairCount(cluster_stats[i]) = 1
       /\ Len(cluster_stats[i].phone_numbers) = 2
       /\ DistinctPhones(cluster_stats[i].phone_numbers)
       /\ risk_stats[i].risk_score = 50

\* C2: every scored cluster has an integer risk_score in 0..100, and its
\* risk_level is High iff risk_score >= 60, Medium iff 30 <= risk_score <= 59,
\* Low iff risk_score < 30.
C2_ScoreBoundsAndLevel ==
  pc = "scored" =>
    \A i \in 1..Len(risk_stats) :
       LET r == risk_stats[i] IN
       /\ r.risk_score \in 0..100
       /\ r.risk_level \in {"High", "Medium", "Low"}
       /\ (r.risk_level = "High") <=> (r.risk_score >= 60)
       /\ (r.risk_level = "Medium") <=> (r.risk_score >= 30 /\ r.risk_score <= 59)
       /\ (r.risk_level = "Low") <=> (r.risk_score < 30)

C2_Witness ==
  /\ pc = "scored"
  /\ \E i \in 1..Len(risk_stats) :
       risk_stats[i].risk_score = 60 /\ risk_stats[i].risk_level = "High"

----------------------------------------------------------------------------
(* Claims on the DBSCAN labels, checked under SpecDbscan *)

Near(i, j) ==
  (coords[i][1] - coords[j][1]) * (coords[i][1] - coords[j][1])
    + (coords[i][2] - coords[j][2]) * (coords[i][2] - coords[j][2])
  <= radius_meters * radius_meters

\* P is a core point: at least minSamples retailers, P included, lie
\* within the radius of P
CorePoint(i) == Cardinality({j \in 1..Len(coords) : Near(i, j)}) >= min_samples

NearCore(i) == \E j \in 1..Len(coords) : CorePoint(j) /\ Near(i, j)

\* C8: a retailer is noise (-1) iff it is not a core point and no core
\* point lies within the radius of it; core points and points within the
\* radius of a core point get an id >= 0; two core points within the radius
\* of each other get the same id.
C8_CoreBorderNoise ==
  pc = "fitted" =>
    LET core == {i \in 1..Len(coords) : CorePoint(i)}
        nearCore == {i \in 1..Len(coords) : \E j \in core : Near(i, j)}
    IN /\ Len(labels) = Len(coords)
       /\ \A i \in 1..Len(coords) :
            /\ labels[i] \in Int /\ labels[i] >= -1
            /\ (labels[i] = -1) <=> (i \notin core /\ i \notin nearCore)
            /\ (i \in core \/ i \in nearCore) => labels[i] >= 0
       /\ \A i, j \in core : Near(i, j) => labels[i] = labels[j]

\* a noise point, a border point and two distinct neighbouring core points
C8_Witness ==
  /\ pc = "fitted"
  /\ LET core == {i \in 1..Len(coords) : CorePoint(i)}
         nearCore == {i \in 1..Len(coords) : \E j \in core : Near(i, j)}
     IN /\ \E n \in 1..Len(coords) \ (core \cup nearCore) : labels[n] = -1
        /\ \E b \in nearCore \ core : labels[b] >= 0
        /\ \E c, d \in core :
             /\ coords[c] # coords[d] /\ Near(c, d)
             /\ labels[c] = labels[d] /\ labels[c] >= 0

\* C9: two canonical retailers with identical coordinates always receive
\* the same cluster id, for every radius > 0 and every minSamples >= 1.
C9_IdenticalCoordsTogether ==
  pc = "fitted" =>
    \A i, j \in 1..Len(coords) : coords[i] = coords[j] => labels[i] = labels[j]

\* two retailers at one place, both border points, within the radius of
\* core points of two different clusters
C9_Witness ==
  /\ pc = "fitted"
  /\ LET core == {i \in 1..Len(coords) : CorePoint(i)}
     IN \E i, j \in 1..Len(coords) \ core :
          /\ i # j /\ coords[i] = coords[j]
          /\ labels[i] = labels[j] /\ labels[i] >= 0
          /\ \E a, b \in core :
               /\ Near(i, a) /\ Near(i, b)
               /\ labels[a] >= 0 /\ labels[b] >= 0 /\ labels[a] # labels[b]

ClusterMembers(c) == {i \in 1..Len(coords) : labels[i] = c}

\* C10: every cluster with id >= 0 contains at least min_samples distinct
\* retailers.
C10_ClusterHasMinSamples ==
  pc = "fitted" =>
    \A i \in 1..Len(coords) :
       labels[i] >= 0 => Cardinality(ClusterMembers(labels[i])) >= min_samples

----------------------------------------------------------------------------
(* Claims on cluster_by_gps and calculate_cluster_stats, checked under Spec *)

BuyerIds == {df[i].buyerid : i \in 1..Len(df)}

GroupOf(b) == {i \in 1..Len(df) : df[i].buyerid = b}

\* the positions in df_unique (given as its row indices u) of buyer b
CanonicalOf(u, b) == {k \in 1..Len(u) : df[u[k]].buyerid = b}

\* C3: after cluster_by_gps every record of a buyerid group carries
\* meeting_count = the number of input records of that buyerid, and the
\* canonical record of the group (the one whose coordinates are clustered)
\* has the maximum timestamp of the group.
C3_DedupCorrect ==
  pc \in {"clustered", "stats"} =>
    LET u == UniqueRows(df) IN
    /\ Len(coords) = Len(u)
    /\ \A b \in BuyerIds :
         /\ \A i \in 1..Len(df_clustered) :
              df_clustered[i].buyerid = b =>
                df_clustered[i].meeting_count = Cardinality(GroupOf(b))
         /\ Cardinality(CanonicalOf(u, b)) = 1
         /\ \A k \in CanonicalOf(u, b) :
              /\ u[k] \in GroupOf(b)
              /\ coords[k] = <<df[u[k]].currentLatitude, df[u[k]].currentLongitude>>
              /\ \A j \in GroupOf(b) :
                   df[j].meetingDate # NaT =>
                     /\ df[u[k]].meetingDate # NaT
                     /\ df[u[k]].meetingDate >= df[j].meetingDate

\* a buyer with three visits at different places, the most recent one in
\* the middle of the input and one without a date
C3_Witness ==
  /\ pc = "clustered"
  /\ \E b \in BuyerIds :
       /\ Cardinality(GroupOf(b)) = 3
       /\ df[1].meetingDate = 1 /\ df[2].meetingDate = 2 /\ df[3].meetingDate = NaT
       /\ df[2].currentLongitude # df[1].currentLongitude
       /\ coords = <<(<<df[2].currentLatitude, df[2].currentLongitude>>)>>
       /\ \A i \in 1..3 : df_clustered[i].meeting_count = 3

\* C4: cluster_by_gps returns one row per input record, each with one
\* integer cluster_id that is -1 or >= 0; all records of a buyerid carry the
\* cluster_id computed for that buyer's canonical record, so every retailer
\* is in exactly one of the clusters or the noise set.
C4_PartitionTotal ==
  pc \in {"clustered", "stats"} =>
    LET u == UniqueRows(df) IN
    /\ Len(df_clustered) = Len(df)
    /\ Len(labels) = Len(coords)
    /\ \A i \in 1..Len(df) :
         /\ df_clustered[i].buyerid = df[i].buyerid
         /\ df_clustered[i].meetingDate = df[i].meetingDate
         /\ df_clustered[i].currentLatitude = df[i].currentLatitude
         /\ df_clustered[i].currentLongitude = df[i].currentLongitude
         /\ df_clustered[i].cluster_id \in Int
         /\ df_clustered[i].cluster_id >= -1
         /\ \E k \in CanonicalOf(u, df[i].buyerid) : df_clustered[i].cluster_id = labels[k]
    /\ \A b \in BuyerIds :
         Cardinality({df_clustered[i].cluster_id : i \in GroupOf(b)}) = 1

\* a retailer with two visits, the older one out of reach of every
\* clustered coordinate, both records in the cluster of the recent visit
C4_Witness ==
  /\ pc = "clustered"
  /\ \E i, j \in 1..Len(df) :
       /\ i # j /\ df[i].buyerid = df[j].buyerid
       /\ df[i].meetingDate # NaT /\ df[j].meetingDate > df[i].meetingDate
       /\ \A k \in 1..Len(coords) :
            ~WithinEps(<<df[i].currentLatitude, df[i].currentLongitude>>, coords[k], radius_meters)
       /\ df_clustered[j].cluster_id >= 0
       /\ df_clustered[i].cluster_id = df_clustered[j].cluster_id

ClusterIds == {df_clustered[i].cluster_id : i \in 1..Len(df_clustered)} \ {-1}

BuyersIn(c) ==
  {df_clustered[i].buyerid : i \in {j \in 1..Len(df_clustered) : df_clustered[j].cluster_id = c}}

\* C5: for every cluster id >= 0 calculate_cluster_stats gives one row whose
\* retailer_count is the number of distinct buyerid values carrying that
\* cluster id; there is no row for cluster id -1.
C5_RetailerCount ==
  pc = "stats" =>
    /\ \A c \in ClusterIds :
         /\ Cardinality({k \in 1..Len(cluster_stats) : cluster_stats[k].cluster_id = c}) = 1
         /\ \A k \in 1..Len(cluster_stats) :
              cluster_stats[k].cluster_id = c =>
                cluster_stats[k].retailer_count = Cardinality(BuyersIn(c))
    /\ \A k \in 1..Len(cluster_stats) :
         cluster_stats[k].cluster_id >= 0 /\ cluster_stats[k].cluster_id \in ClusterIds

\* a cluster of two retailers carried by three visit records
C5_Witness ==
  /\ pc = "stats"
  /\ Len(df_clustered) = 3
  /\ \A i \in 1..3 : df_clustered[i].cluster_id = 0
  /\ Len(cluster_stats) = 1
  /\ cluster_stats[1].retailer_count = 2

\* the canonical rows of df_unique labelled c by the clustering
CanonicalMembers(c) == {k \in 1..Len(labels) : labels[k] = c}

RECURSIVE SumOver(_, _)
SumOver(S, axis) ==
  IF S = {} THEN 0
  ELSE LET k == CHOOSE x \in S : TRUE
       IN coords[k][axis] + SumOver(S \ {k}, axis)

\* C6: center_lat and center_lon of every cluster are the arithmetic mean
\* of the coordinates fed to the clustering for its members (each member's
\* most recent visit), one coordinate pair per member.
C6_CenterIsCanonicalMean ==
  pc = "stats" =>
    \A r \in 1..Len(cluster_stats) :
       LET row == cluster_stats[r]
           M == CanonicalMembers(row.cluster_id)
       IN /\ row.center_lat.n = Cardinality(M)
          /\ row.center_lon.n = Cardinality(M)
          /\ row.center_lat.sum = SumOver(M, 1)
          /\ row.center_lon.sum = SumOver(M, 2)

\* distinct traders over the most recent visit of each member
TradersCanonical(c) ==
  LET u == UniqueRows(df)
  IN {df[u[k]].traderName : k \in CanonicalMembers(c)}

\* distinct traders over all visits of all members
TradersAllVisits(c) ==
  {df_clustered[i].traderName : i \in {j \in 1..Len(df_clustered) : df_clustered[j].cluster_id = c}}

\* C7: trader_count of every cluster is the number of distinct traders of
\* its members under one of the two readings: counted over the members'
\* most recent visits, or over all their visits.  A cluster whose
\* trader_count is neither number refutes both readings.
C7_TraderCountReading ==
  pc = "stats" =>
    \A r \in 1..Len(cluster_stats) :
       \/ cluster_stats[r].trader_count = Cardinality(TradersCanonical(cluster_stats[r].cluster_id))
       \/ cluster_stats[r].trader_count = Cardinality(TradersAllVisits(cluster_stats[r].cluster_id))

----------------------------------------------------------------------------
(* Claims on the similarity analysis of a run, checked under SpecNames and
   SpecPhones *)

\* the canonical name of every buyer: the name on the record
\* cluster_by_gps clustered
CanonicalNames ==
  LET u == UniqueRows(df)
  IN [b \in {df[i].buyerid : i \in 1..Len(df)} |->
        df[u[CHOOSE k \in 1..Len(u) : df[u[k]].buyerid = b]].buyerName]

\* the entries of name_pairs that report the two buyers, in either order
PairEntries(entry, a, b) ==
  {k \in 1..Len(entry.name_pairs) :
     {entry.name_pairs[k].id1, entry.name_pairs[k].id2} = {a, b}}

\* score a >= score b
ScoreAtLeast(a, b) == a.num * b.den >= b.num * a.den

\* C11: for a cluster with n >= 2 canonical retailers name_pairs holds
\* exactly the unordered pairs of distinct retailers whose name similarity
\* is >= the threshold, each once and none with both ids equal;
\* similar_name_pairs is the length of name_pairs and max_similarity its
\* largest similarity, 0 when it is empty; a cluster with fewer than 2
\* retailers gets empty lists and zero counts.
C11_PairwiseScan ==
  pc = "analyzed" =>
    /\ DOMAIN similarity_results = {ClusterKey(c) : c \in ClusterIds}
    /\ LET name == CanonicalNames IN
       \A c \in ClusterIds :
         LET entry == similarity_results[ClusterKey(c)]
             B == BuyersIn(c)
         IN /\ entry.similar_name_pairs = Len(entry.name_pairs)
            /\ IF Cardinality(B) < 2
               THEN /\ entry.name_pairs = <<>> /\ entry.phone_groups = <<>>
                    /\ entry.similar_name_pairs = 0 /\ entry.phone_duplicates = 0
                    /\ entry.max_similarity.num = 0
               ELSE /\ \A k \in 1..Len(entry.name_pairs) :
                         LET pair == entry.name_pairs[k]
                         IN /\ pair.id1 # pair.id2
                            /\ pair.id1 \in B /\ pair.id2 \in B
                            /\ pair.retailer1 = name[pair.id1]
                            /\ pair.retailer2 = name[pair.id2]
                            /\ pair.similarity
                                 = calculate_name_similarity(name[pair.id1], name[pair.id2])
                            /\ ScoreAtLeast(entry.max_similarity, pair.similarity)
                    /\ \A a, b \in B :
                         a # b =>
                           Cardinality(PairEntries(entry, a, b))
                             = IF AtLeast(calculate_name_similarity(name[a], name[b]),
                                          name_threshold)
                               THEN 1 ELSE 0
                    /\ IF entry.name_pairs = <<>>
                       THEN entry.max_similarity.num = 0
                       ELSE \E k \in 1..Len(entry.name_pairs) :
                              entry.max_similarity = entry.name_pairs[k].similarity

\* three retailers in one cluster: the first and the third are reported,
\* the pairs with the second are below the threshold
C11_Witness ==
  /\ pc = "analyzed"
  /\ \E c \in ClusterIds :
       LET entry == similarity_results[ClusterKey(c)]
       IN /\ BuyersIn(c) = {1, 2, 3}
          /\ Len(entry.name_pairs) = 1
          /\ entry.name_pairs[1].id1 # 2 /\ entry.name_pairs[1].id2 # 2
          /\ entry.max_similarity = [num |-> 100, den |-> 1]
          /\ calculate_name_similarity(CanonicalNames[1], CanonicalNames[2]).num > 0

\* the canonical phone of every buyer: the phone on the record
\* cluster_by_gps clustered
CanonicalPhones ==
  LET u == UniqueRows(df)
  IN [b \in {df[i].buyerid : i \in 1..Len(df)} |->
        df[u[CHOOSE k \in 1..Len(u) : df[u[k]].buyerid = b]].buyerPhone]

\* a normalized phone that is neither blank nor the text nan
NonBlankPhone(p) == p # <<>> /\ p # <<"n", "a", "n">> /\ p # Missing

\* C12: for every cluster, phone_groups holds exactly one entry per
\* non-blank normalized phone that is the phone of at least 2 distinct
\* canonical retailers of the cluster; its count is the number of these
\* retailers and its ids are exactly these retailers; blank or 'nan' phones
\* form no group; phone_duplicates is the number of entries.
C12_PhoneGroups ==
  pc = "analyzed" =>
    LET phone == CanonicalPhones IN
    \A c \in ClusterIds :
       LET entry == similarity_results[ClusterKey(c)]
           B == BuyersIn(c)
           Sharing(p) == {b \in B : phone[b] = p}
           Shared == {p \in {phone[b] : b \in B} :
                        NonBlankPhone(p) /\ Cardinality(Sharing(p)) >= 2}
       IN /\ entry.phone_duplicates = Len(entry.phone_groups)
          /\ \A p \in Shared :
               Cardinality({k \in 1..Len(entry.phone_groups) :
                              entry.phone_groups[k].phone = p}) = 1
          /\ \A k \in 1..Len(entry.phone_groups) :
               LET group == entry.phone_groups[k]
               IN /\ group.phone \in Shared
                  /\ NonBlankPhone(group.phone)
                  /\ group.count = Cardinality(Sharing(group.phone))
                  /\ Len(group.ids) = group.count
                  /\ Range(group.ids) = Sharing(group.phone)
                  /\ Len(group.retailers) = group.count

\* three retailers in one cluster: two share a phone written in two ways
\* in the file, the third has no phone
C12_Witness ==
  /\ pc = "analyzed"
  /\ \E i, j \in 1..Len(uploaded.rows) :
       /\ uploaded.rows[i].buyerPhone = <<"1", "-", "1">>
       /\ uploaded.rows[j].buyerPhone = <<"1", "1">>
       /\ uploaded.rows[i].buyerid # uploaded.rows[j].buyerid
  /\ \E c \in ClusterIds :
       LET entry == similarity_results[ClusterKey(c)]
       IN /\ Cardinality(BuyersIn(c)) = 3
          /\ Len(entry.phone_groups) = 1
          /\ entry.phone_groups[1].phone = <<"1", "1">>
          /\ entry.phone_groups[1].count = 2
          /\ \E b \in BuyersIn(c) : CanonicalPhones[b] = <<>>

\* C13: the phone factor of a cluster's score is 15 exactly when two of
\* its member retailers have the same phone, and 0 otherwise; two retailers
\* of a cluster with the same normalized phone number give one PhoneGroup
\* of count 2 and add 15 to the score of the cluster.
C13_PhoneFactor ==
  pc = "done" =>
    LET phone == CanonicalPhones IN
    \A r \in 1..Len(risk_stats) :
       LET row == risk_stats[r]
           entry == similarity_results[ClusterKey(row.cluster_id)]
           B == BuyersIn(row.cluster_id)
           shared == \E a, b \in B : a # b /\ phone[a] = phone[b]
           others == SizeFactor(row.retailer_count) + TraderFactor(row.trader_count)
                       + Min(15 * entry.similar_name_pairs, 30)
       IN /\ row.risk_score = Min(others + (IF shared THEN 15 ELSE 0), 100)
          /\ \A a, b \in B :
               (/\ a # b /\ phone[a] = phone[b] /\ NonBlankPhone(phone[a])
                /\ \A x \in B \ {a, b} : phone[x] # phone[a])
                 => /\ \E k \in 1..Len(entry.phone_groups) :
                         /\ entry.phone_groups[k].phone = phone[a]
                         /\ entry.phone_groups[k].count = 2
                    /\ row.risk_score = Min(others + 15, 100)

\* the buyerName cell, as uploaded, of every buyer's canonical record; the
\* runs of SpecNames drop no record, so the rows of df are those of the file
UploadedNames ==
  LET u == UniqueRows(df)
  IN [b \in {df[i].buyerid : i \in 1..Len(df)} |->
        uploaded.rows[u[CHOOSE k \in 1..Len(u) : df[u[k]].buyerid = b]].buyerName]

\* C14: in a run over ingested records, two retailers of a cluster of which
\* at least one has a missing name have name similarity 0 and are never
\* reported as a similar name pair, for any threshold > 0, also when both
\* names are missing.
C14_MissingNameSimilarityZero ==
  (pc = "analyzed" /\ Len(df) = Len(uploaded.rows) /\ name_threshold > 0) =>
    LET raw == UploadedNames
        name == CanonicalNames
    IN \A c \in ClusterIds :
         \A a, b \in BuyersIn(c) :
            (a # b /\ (IsNa(raw[a]) \/ IsNa(raw[b]))) =>
              /\ calculate_name_similarity(name[a], name[b]).num = 0
              /\ PairEntries(similarity_results[ClusterKey(c)], a, b) = {}

----------------------------------------------------------------------------
(* Claims on the distance matrix, checked under SpecPhones *)

\* C16: for a cluster with N >= 2 canonical retailers the distance matrix
\* has one row and one column per canonical retailer, entry (i, j) equals
\* entry (j, i) and every diagonal entry is 0; for a cluster with fewer than
\* 2 canonical retailers the result is empty.
C16_DistanceMatrixSymmetric ==
  pc = "matrix" =>
    LET N == Cardinality(BuyersIn(selected_cluster_id))
        M == distance_matrix.values
    IN IF N >= 2
       THEN /\ Len(distance_matrix.index) = N
            /\ Len(distance_matrix.columns) = N
            /\ Len(M) = N
            /\ \A i \in 1..N :
                 /\ Len(M[i]) = N
                 /\ M[i][i] = 0
                 /\ \A j \in 1..N : M[i][j] = M[j][i]
       ELSE distance_matrix = EmptyFrame

\* three retailers of one cluster, not all at one place
C16_Witness ==
  /\ pc = "matrix"
  /\ Cardinality(BuyersIn(selected_cluster_id)) = 3
  /\ Len(distance_matrix.values) = 3
  /\ distance_matrix.values[1][3] > 0
  /\ distance_matrix.values[3][1] = distance_matrix.values[1][3]
  /\ distance_matrix.values[2][3] = 0

----------------------------------------------------------------------------
(* Claims on validation and cleaning, checked under SpecUpload *)

RequiredFields ==
  {"meetingDate", "Darkstore", "traderName", "traderId", "buyerName", "buyerid",
   "buyerPhone", "currentLatitude", "currentLongitude", "selfie", "verificationDoc"}

\* nothing has been cleaned, clustered, analysed or scored
NothingComputed ==
  /\ df = <<>> /\ removed_count = 0
  /\ df_clustered = <<>> /\ coords = <<>> /\ labels = <<>>
  /\ cluster_stats = <<>> /\ similarity_results = <<>> /\ risk_stats = <<>>
  /\ distance_matrix = EmptyFrame

ValidCoordinate(cell, limit) ==
  cell.kind = "num" /\ cell.val >= -limit /\ cell.val <= limit

\* the records of the file excluded for their latitude or longitude
ExcludedRecords ==
  {i \in 1..Len(uploaded.rows) :
     \/ ~ValidCoordinate(uploaded.rows[i].currentLatitude, LatLimit)
     \/ ~ValidCoordinate(uploaded.rows[i].currentLongitude, LonLimit)}

\* C18: every record whose latitude or longitude is non-numeric, non-finite
\* or out of range is left out of the clustering input without failing the
\* run, and the number of exclusions reported is the number of records
\* excluded for any of these reasons.
C18_ExclusionsReported ==
  pc \in {"loaded", "clustered", "stats", "analyzed", "done", "matrix"} =>
    /\ Len(df) = Len(uploaded.rows) - Cardinality(ExcludedRecords)
    /\ \A i \in 1..Len(df) :
         /\ df[i].currentLatitude \in (-LatLimit)..LatLimit
         /\ df[i].currentLongitude \in (-LonLimit)..LonLimit
    /\ removed_count = Cardinality(ExcludedRecords)

\* C19: deduplication fails when a record has no buyerid: no run gets past
\* cluster_by_gps with such a record, which never becomes a canonical
\* retailer and never receives a cluster id.
C19_MissingBuyerIdFails ==
  pc \in {"clustered", "stats", "analyzed", "done", "matrix"} =>
    \A i \in 1..Len(df) : df[i].buyerid # NoBuyerId

\* C20: with zero records to analyse no step fails: cluster_by_gps returns
\* an empty frame, calculate_cluster_stats an empty frame,
\* analyze_all_clusters an empty dict, risk scoring is skipped and
\* calculate_distance_matrix returns an empty frame: a result with zero
\* clusters.
C20_EmptyInput ==
  Len(df) = 0 =>
    /\ pc \in {"clustered", "stats", "analyzed", "done", "matrix"} =>
         df_clustered = <<>> /\ coords = <<>> /\ labels = <<>>
    /\ pc \in {"stats", "analyzed", "done", "matrix"} => cluster_stats = <<>>
    /\ pc \in {"analyzed", "done", "matrix"} => DOMAIN similarity_results = {}
    /\ pc \in {"done", "matrix"} => risk_stats = <<>>
    /\ pc = "matrix" => distance_matrix = EmptyFrame

\* a file of two records, both excluded by the cleaning, analysed to the
\* end with zero clusters
C20_Witness ==
  /\ pc = "matrix"
  /\ Len(uploaded.rows) = 2
  /\ Len(df) = 0
  /\ df_clustered = <<>> /\ cluster_stats = <<>> /\ risk_stats = <<>>
  /\ DOMAIN similarity_results = {}
  /\ distance_matrix = EmptyFrame

----------------------------------------------------------------------------
(* Claims on the records without a date, checked under SpecDates *)

\* the runs of SpecDates drop no record: row i of df is row i of the file
Undated(i) == uploaded.rows[i].meetingDate = BadDate

\* C21: in a buyerid group with at least one record whose timestamp is
\* valid, a record whose timestamp is missing or unparsable is never the
\* canonical record (the one whose coordinates are clustered); such a
\* record is canonical only when no record of the group has a valid
\* timestamp.
C21_UndatedNeverCanonical ==
  pc \in {"clustered", "stats", "analyzed", "done", "matrix"} =>
    LET u == UniqueRows(df) IN
    /\ Len(df) = Len(uploaded.rows)
    /\ Len(coords) = Len(u)
    /\ \A i \in 1..Len(df) : Undated(i) <=> df[i].meetingDate = NaT
    /\ \A b \in BuyerIds :
         /\ CanonicalOf(u, b) # {}
         /\ \A k \in CanonicalOf(u, b) :
              /\ coords[k] = <<df[u[k]].currentLatitude, df[u[k]].currentLongitude>>
              /\ Undated(u[k]) => \A j \in GroupOf(b) : Undated(j)
              /\ (\E j \in GroupOf(b) : ~Undated(j)) => ~Undated(u[k])

\* a buyer whose first record in the file has no date and another place
\* than the dated record that follows: the dated record is clustered; and
\* a buyer without any dated record, whose undated record is clustered
C21_Witness ==
  /\ pc = "clustered"
  /\ Len(df) = 3
  /\ Undated(1) /\ ~Undated(2) /\ Undated(3)
  /\ df[1].buyerid = 1 /\ df[2].buyerid = 1 /\ df[3].buyerid = 2
  /\ df[1].currentLongitude = 1 /\ df[2].currentLongitude = 0
  /\ df[3].currentLongitude = 1
  /\ coords = <<(<<0, 0>>), (<<0, 1>>)>>

----------------------------------------------------------------------------
(* Claims on the frames passed to the functions, checked under SpecUpload *)

\* C22: cluster_by_gps, calculate_cluster_stats, analyze_cluster_similarity,
\* calculate_distance_matrix and calculate_cluster_risk_score leave the
\* collections passed to them unchanged (same rows, same columns, same
\* values), for every input including an input with zero rows.
C22_InputsUnchanged ==
  [][/\ (pc = "loaded" /\ pc' = "clustered") =>
          (df' = df /\ df_columns' = df_columns)
     /\ (pc = "clustered" /\ pc' = "stats") => df_clustered' = df_clustered
     /\ (pc = "stats" /\ pc' = "analyzed") => df_clustered' = df_clustered
     /\ (pc = "analyzed" /\ pc' = "done") =>
          /\ df_clustered' = df_clustered
          /\ cluster_stats' = cluster_stats
          /\ similarity_results' = similarity_results
     /\ (pc = "done" /\ pc' = "matrix") => df_clustered' = df_clustered]_vars

----------------------------------------------------------------------------
(* Claims on a second call of cluster_by_gps, checked under SpecRecluster *)

\* C23: the cluster_id that cluster_by_gps returns for each record is a
\* function only of the canonical coordinates, radius_meters and
\* min_samples of that call: when the input already carries a cluster_id
\* (and meeting_count) column from an earlier run with other settings, the
\* returned cluster_id column holds the freshly computed assignment (the
\* label DBSCAN gives the canonical record of the buyer in this call).
C23_ClusterIdRecomputed ==
  pc = "clustered" =>
    LET u == UniqueRows(df) IN
    /\ Len(df_clustered) = Len(df)
    /\ Len(labels) = Len(u)
    /\ \A i \in 1..Len(df) :
         \E k \in CanonicalOf(u, df[i].buyerid) :
            df_clustered[i].cluster_id = labels[k]

----------------------------------------------------------------------------
(* Claims on the phone factor and the phone groups of one run, checked
   under SpecPhones *)

\* the part of a scored row's risk_score that the phone factor adds: the
\* three other factors add at most 85, so the cap at 100 cuts nothing
PhoneFactorOf(row) ==
  row.risk_score
    - (SizeFactor(row.retailer_count) + TraderFactor(row.trader_count)
         + Min(15 * similarity_results[ClusterKey(row.cluster_id)].similar_name_pairs, 30))

\* C24: within one analysis run the risk scorer and the similarity analyzer
\* agree on phone duplication: a cluster receives the +15 phone factor if
\* and only if analyze_cluster_similarity reports at least one phone group
\* for that cluster, also when several retailers have a blank phone and
\* when a retailer's phone differs between visits.
C24_PhoneFactorIffPhoneGroup ==
  pc = "done" =>
    \A r \in 1..Len(risk_stats) :
       LET row == risk_stats[r]
           entry == similarity_results[ClusterKey(row.cluster_id)]
       IN /\ PhoneFactorOf(row) \in {0, 15}
          /\ PhoneFactorOf(row) = 15 <=> Len(entry.phone_groups) >= 1

----------------------------------------------------------------------------
(* Claims on the dashboard session, checked under SpecSession *)

\* C25: the cluster shown in the detailed cluster view always is one the
\* user selected (map click or table row) from the results of the most
\* recent Run Analysis: when a run has completed, no detailed view is shown
\* until the user selects a cluster of its results, so a selected_cluster_id
\* chosen against an earlier run is never used to show details of a later
\* run's clusters.
C25_SelectionOfLatestRun ==
  [][(pc = "analyzed" /\ pc' = "done") =>
       /\ ~DetailsShown(risk_stats', selected_cluster_id')
       /\ distance_matrix' = EmptyFrame]_vars

====
